---- MODULE Spec2Model ----
(***************************************************************************)
(* Path resolution and tree operations of drive.py over a remote,          *)
(* id-addressed file store (Google Drive "files" resource).                *)
(*                                                                         *)
(* Strings are sequences of one-character strings, so that strip('/'),     *)
(* split('/') and ",".join(...) are computed as Python computes them.      *)
(* Node ids are integers; the id 'root' is Root.  Every remote request an  *)
(* operation issues is appended to `calls`, in the order it is issued.     *)
(***************************************************************************)
EXTENDS Integers, Sequences, FiniteSets, TLC

(* ------------------------------ bounds --------------------------------- *)

\* number of node ids other than 'root'
MaxNodes == 3

\* longest path string given to an operation
MaxPathLen == 4

\* longest path string given to delete_by_path
MaxDeletePathLen == 2

\* largest provider page size for a list request that names no pageSize
MaxPageSize == 2

\* largest number of chunks a download takes
MaxChunks == 2

(* ------------------------------ strings -------------------------------- *)

Slash == "/"

Comma == ","

NameChars == {"a", "b"}

PathChars == NameChars \cup {Slash}

SeqsUpTo(S, n) == UNION {[1..k -> S] : k \in 0..n}

\* names a node can have: non-empty, without a slash
Names == {<<c>> : c \in NameChars}

Paths == SeqsUpTo(PathChars, MaxPathLen)

DeletePaths == SeqsUpTo(PathChars, MaxDeletePathLen)

RECURSIVE LStrip(_, _)
LStrip(s, c) ==
    IF s # <<>> /\ Head(s) = c THEN LStrip(Tail(s), c) ELSE s

RECURSIVE RStrip(_, _)
RStrip(s, c) ==
    IF s # <<>> /\ s[Len(s)] = c THEN RStrip(SubSeq(s, 1, Len(s) - 1), c) ELSE s

\* str.strip(c)
Strip(s, c) == RStrip(LStrip(s, c), c)

RECURSIVE SplitFrom(_, _, _)
SplitFrom(s, sep, cur) ==
    IF s = <<>> THEN <<cur>>
    ELSE IF Head(s) = sep THEN <<cur>> \o SplitFrom(Tail(s), sep, <<>>)
    ELSE SplitFrom(Tail(s), sep, Append(cur, Head(s)))

\* str.split(sep): one piece more than there are separators, empty pieces kept
Split(s, sep) == SplitFrom(s, sep, <<>>)

RECURSIVE Join(_, _)
\* sep.join(pieces), every piece a string of its own
Join(sep, pieces) ==
    IF pieces = <<>> THEN <<>>
    ELSE IF Len(pieces) = 1 THEN pieces[1]
    ELSE pieces[1] \o <<sep>> \o Join(sep, Tail(pieces))

(* ---------------------------- remote store ----------------------------- *)

\* the id 'root'
Root == 0

NodeIds == 1..MaxNodes

NoId == 0 - 1

\* an id as the string the API carries; an id is one token of a string
IdStr(i) == IF i = Root THEN <<"root">> ELSE <<ToString(i)>>

IdOf(s) == IF \E i \in {Root} \cup NodeIds : IdStr(i) = s
           THEN CHOOSE i \in {Root} \cup NodeIds : IdStr(i) = s
           ELSE NoId

GoogleApps == "application/vnd.google-apps"

FolderMime == <<GoogleApps, "folder">>

PlainMime == <<"text/plain">>

DocMime == <<GoogleApps, "document">>

VARIABLES
    files,      \* the remote store: id -> [name, mimeType, parents, trashed]
    order,      \* the order in which the provider returns the items of a list
    pageSize,   \* the provider's page size for a list request without pageSize
    op,         \* the operation invoked last, with its arguments and the store before it
    calls,      \* the remote requests the operation issued, in order
    ret         \* what the operation returned or raised

vars == <<files, order, pageSize, op, calls, ret>>

\* the remote service as an operation starts on it: no request issued yet;
\* failAt = k makes the k-th delete request fail in transit (0: none does)
Service(failAt) ==
    [files |-> files, order |-> order, pageSize |-> pageSize,
     failAt |-> failAt, calls |-> <<>>]

RECURSIVE SortAsc(_)
SortAsc(S) ==
    IF S = {} THEN <<>>
    ELSE LET m == CHOOSE x \in S : \A y \in S : x <= y
         IN <<m>> \o SortAsc(S \ {m})

Reverse(s) == [i \in 1..Len(s) |-> s[Len(s) + 1 - i]]

\* the ids of S in the order the provider returns them
ProviderOrder(svc, S) ==
    IF svc.order = "asc" THEN SortAsc(S) ELSE Reverse(SortAsc(S))

IsFolderNode(f, id) == id = Root \/ (id \in DOMAIN f /\ f[id].mimeType = FolderMime)

\* q = "name = '<name>' and '<parent>' in parents and trashed = false"
NameQuery(name, parent_id) ==
    [byName |-> TRUE, name |-> name, parent |-> parent_id]

\* q = "'<parent>' in parents and trashed = false"
ChildrenQuery(parent_id) ==
    [byName |-> FALSE, name |-> <<>>, parent |-> parent_id]

NoQuery == [byName |-> FALSE, name |-> <<>>, parent |-> NoId]

Matches(svc, q) ==
    {i \in DOMAIN svc.files :
        /\ ~svc.files[i].trashed
        /\ q.parent \in svc.files[i].parents
        /\ (q.byName => svc.files[i].name = q.name)}

Item(svc, i) == [id |-> i, mimeType |-> svc.files[i].mimeType]

\* files().list(q=...).execute() without pageSize and pageToken: the first
\* page, of at most the provider's page size
ListFirstPage(svc, q) ==
    LET all == ProviderOrder(svc, Matches(svc, q))
        n == IF Len(all) < svc.pageSize THEN Len(all) ELSE svc.pageSize
    IN [i \in 1..n |-> Item(svc, all[i])]

Call(api, id, q, add, remove, ok) ==
    [api |-> api, id |-> id, q |-> q, add |-> add, remove |-> remove, ok |-> ok]

ListCall(q) == Call("list", q.parent, q, <<>>, <<>>, TRUE)

Logged(svc, call) == [svc EXCEPT !.calls = Append(@, call)]

(* ------------------------------ results -------------------------------- *)

NoError == [kind |-> "none", part |-> <<>>, path |-> <<>>, id |-> NoId]

Returned(v) == [ok |-> TRUE, value |-> v, err |-> NoError]

Raised(e) == [ok |-> FALSE, value |-> NoId, err |-> e]

\* a message that names the segment only
FileNotFoundError_PartOnly(part, path) ==
    [kind |-> "FileNotFoundError", part |-> part, path |-> part, id |-> NoId]

\* FileNotFoundError(f"Cannot find '{part}' in path '{path}'")
FileNotFoundError(part, path) ==
    [kind |-> "FileNotFoundError", part |-> part, path |-> path, id |-> NoId]

\* the error of a request the provider refuses (no such file, not permitted)
HttpError(id) == [kind |-> "HttpError", part |-> <<>>, path |-> <<>>, id |-> id]

\* the error of a request that fails in transit
RemoteFailure(id) == [kind |-> "RemoteFailure", part |-> <<>>, path |-> <<>>, id |-> id]

\* the value True of delete_file and delete_folder
PyTrue == 1

(* --------------------------- find_id_by_path --------------------------- *)

\* the loop taking the last item of a lookup instead of the first
RECURSIVE ResolveParts_LastItem(_, _, _, _, _)
ResolveParts_LastItem(svc, path, parts, i, parent_id) ==
    IF i > Len(parts) THEN [ret |-> Returned(parent_id), svc |-> svc]
    ELSE LET query == NameQuery(parts[i], parent_id)
             items == ListFirstPage(svc, query)
             svc2 == Logged(svc, ListCall(query))
         IN IF items = <<>>
            THEN [ret |-> Raised(FileNotFoundError(parts[i], path)), svc |-> svc2]
            ELSE ResolveParts_LastItem(svc2, path, parts, i + 1, items[Len(items)].id)

\* the loop looking every part up under 'root'
RECURSIVE ResolveParts_FromRoot(_, _, _, _, _)
ResolveParts_FromRoot(svc, path, parts, i, parent_id) ==
    IF i > Len(parts) THEN [ret |-> Returned(parent_id), svc |-> svc]
    ELSE LET query == NameQuery(parts[i], Root)
             items == ListFirstPage(svc, query)
             svc2 == Logged(svc, ListCall(query))
         IN IF items = <<>>
            THEN [ret |-> Raised(FileNotFoundError(parts[i], path)), svc |-> svc2]
            ELSE ResolveParts_FromRoot(svc2, path, parts, i + 1, items[1].id)

\* the loop of find_id_by_path from part i on; `path` is the stripped path
RECURSIVE ResolveParts(_, _, _, _, _)
ResolveParts(svc, path, parts, i, parent_id) ==
    IF i > Len(parts) THEN [ret |-> Returned(parent_id), svc |-> svc]
    ELSE LET query == NameQuery(parts[i], parent_id)
             items == ListFirstPage(svc, query)
             svc2 == Logged(svc, ListCall(query))
         IN IF items = <<>>
            THEN [ret |-> Raised(FileNotFoundError(parts[i], path)), svc |-> svc2]
            ELSE ResolveParts(svc2, path, parts, i + 1, items[1].id)

\* find_id_by_path without the early return for the empty path
find_id_by_path_NoRootCase(svc, path0) ==
    LET path == Strip(path0, Slash)
    IN ResolveParts(svc, path, Split(path, Slash), 1, Root)

\* find_id_by_path leaving the empty parts out
find_id_by_path_Collapsing(svc, path0) ==
    LET path == Strip(path0, Slash)
        parts == SelectSeq(Split(path, Slash), LAMBDA part : part # <<>>)
    IN IF path = <<>> THEN [ret |-> Returned(Root), svc |-> svc]
       ELSE ResolveParts(svc, path, parts, 1, Root)

find_id_by_path(svc, path0) ==
    LET path == Strip(path0, Slash)
    IN IF path = <<>> THEN [ret |-> Returned(Root), svc |-> svc]
       ELSE ResolveParts(svc, path, Split(path, Slash), 1, Root)

(* ------------------------- delete_file, delete_folder ------------------ *)

DeleteCount(svc) ==
    Cardinality({k \in 1..Len(svc.calls) : svc.calls[k].api = "delete"})

\* what the provider removes with a node: the node and, transitively, every
\* node all of whose parents are removed
RECURSIVE Removed(_, _, _)
Removed(f, D, n) ==
    IF n = 0 THEN D
    ELSE Removed(f, D \cup {i \in DOMAIN f :
                               f[i].parents # {} /\ f[i].parents \subseteq D}, n - 1)

RemoveNodes(f, D) ==
    [i \in DOMAIN f \ D |-> [f[i] EXCEPT !.parents = @ \ D]]

\* files().delete(fileId=id).execute()
DeleteRequest(svc, id) ==
    LET fails == svc.failAt = DeleteCount(svc) + 1
        known == id \in DOMAIN svc.files
        ok == ~fails /\ known
        svc2 == Logged(svc, Call("delete", id, NoQuery, <<>>, <<>>, ok))
    IN IF fails THEN [ret |-> Raised(RemoteFailure(id)), svc |-> svc2]
       ELSE IF ~known THEN [ret |-> Raised(HttpError(id)), svc |-> svc2]
       ELSE [ret |-> Returned(PyTrue),
             svc |-> [svc2 EXCEPT !.files =
                         RemoveNodes(@, Removed(@, {id}, Cardinality(DOMAIN @)))]]

delete_file(svc, file_id) == DeleteRequest(svc, file_id)

RECURSIVE delete_folder(_, _, _)
RECURSIVE DeleteItems(_, _, _)
RECURSIVE DeleteItems_KeepGoing(_, _, _)

\* the loop going on to the next item after a child's delete failed
DeleteItems_KeepGoing(svc, items, k) ==
    IF k > Len(items) THEN [ret |-> Returned(PyTrue), svc |-> svc]
    ELSE LET r == IF items[k].mimeType = FolderMime
                  THEN delete_folder(svc, items[k].id, TRUE)
                  ELSE delete_file(svc, items[k].id)
         IN DeleteItems_KeepGoing(r.svc, items, k + 1)

\* the loop "for item in items" of delete_folder from item k on; an
\* exception of a child's delete leaves the loop and the function
DeleteItems(svc, items, k) ==
    IF k > Len(items) THEN [ret |-> Returned(PyTrue), svc |-> svc]
    ELSE LET r == IF items[k].mimeType = FolderMime
                  THEN delete_folder(svc, items[k].id, TRUE)
                  ELSE delete_file(svc, items[k].id)
         IN IF r.ret.ok THEN DeleteItems(r.svc, items, k + 1) ELSE r

\* delete_folder listing and deleting the children whatever the flag
delete_folder_AlwaysRecursive(svc, folder_id, recursive) ==
    LET query == ChildrenQuery(folder_id)
        children == DeleteItems(Logged(svc, ListCall(query)),
                                ListFirstPage(svc, query), 1)
    IN IF children.ret.ok THEN DeleteRequest(children.svc, folder_id) ELSE children

delete_folder(svc, folder_id, recursive) ==
    LET children ==
            IF recursive
            THEN LET query == ChildrenQuery(folder_id)
                 IN DeleteItems(Logged(svc, ListCall(query)),
                                ListFirstPage(svc, query), 1)
            ELSE [ret |-> Returned(PyTrue), svc |-> svc]
    IN IF children.ret.ok THEN DeleteRequest(children.svc, folder_id) ELSE children

(* ------------------------------ delete_by_path ------------------------- *)

RootMeta == [name |-> <<>>, mimeType |-> FolderMime, parents |-> {}, trashed |-> FALSE]

\* files().get(fileId=id, fields=...).execute()
GetRequest(svc, id) ==
    LET known == id = Root \/ id \in DOMAIN svc.files
        svc2 == Logged(svc, Call("get", id, NoQuery, <<>>, <<>>, known))
    IN IF ~known THEN [ret |-> Raised(HttpError(id)), svc |-> svc2, file |-> RootMeta]
       ELSE [ret |-> Returned(id), svc |-> svc2,
             file |-> IF id = Root THEN RootMeta ELSE svc.files[id]]

\* delete_by_path handing every item to delete_folder
delete_by_path_AlwaysFolder(svc, path, is_folder) ==
    LET found == find_id_by_path(svc, path)
    IN IF ~found.ret.ok THEN found
       ELSE delete_folder(found.svc, found.ret.value, TRUE)

\* the except clause logging the error of the resolution and returning
delete_by_path_Swallowing(svc, path, is_folder) ==
    LET found == find_id_by_path(svc, path)
        item_id == found.ret.value
        file_info == GetRequest(found.svc, item_id)
    IN IF ~found.ret.ok THEN [ret |-> Returned(NoId), svc |-> found.svc]
       ELSE IF is_folder = "None"
       THEN IF ~file_info.ret.ok THEN [ret |-> file_info.ret, svc |-> file_info.svc]
            ELSE IF file_info.file.mimeType = FolderMime
            THEN delete_folder(file_info.svc, item_id, TRUE)
            ELSE delete_file(file_info.svc, item_id)
       ELSE IF is_folder = "True"
       THEN delete_folder(found.svc, item_id, TRUE)
       ELSE delete_file(found.svc, item_id)

\* is_folder is "None", "True" or "False"; the except clause logs and re-raises
delete_by_path(svc, path, is_folder) ==
    LET found == find_id_by_path(svc, path)
        item_id == found.ret.value
        file_info == GetRequest(found.svc, item_id)
    IN IF ~found.ret.ok THEN found
       ELSE IF is_folder = "None"
       THEN IF ~file_info.ret.ok THEN [ret |-> file_info.ret, svc |-> file_info.svc]
            ELSE IF file_info.file.mimeType = FolderMime
            THEN delete_folder(file_info.svc, item_id, TRUE)
            ELSE delete_file(file_info.svc, item_id)
       ELSE IF is_folder = "True"
       THEN delete_folder(found.svc, item_id, TRUE)
       ELSE delete_file(found.svc, item_id)

(* ------------------------------ move_file ------------------------------ *)

\* the ids a comma-separated parameter names
IdsOf(s) == {IdOf(piece) : piece \in {Split(s, Comma)[k] : k \in 1..Len(Split(s, Comma))}} \ {NoId}

RECURSIVE AncestorsOf(_, _, _)
AncestorsOf(f, S, n) ==
    IF n = 0 THEN S
    ELSE AncestorsOf(f, S \cup UNION {f[i].parents : i \in S \cap DOMAIN f}, n - 1)

\* files().update(fileId=id, addParents=add, removeParents=remove).execute();
\* the provider refuses an unknown file, a parent that is no folder and a
\* parent below the file; which of adding and removing it applies last to an
\* id named in both parameters is the provider's choice (addLast)
UpdateRequest(svc, id, add, remove, addLast) ==
    LET f == svc.files
        adds == IdsOf(add)
        removes == IdsOf(remove)
        ok == /\ id \in DOMAIN f
              /\ \A p \in adds : IsFolderNode(f, p)
              /\ id \notin AncestorsOf(f, adds, Cardinality(DOMAIN f))
        svc2 == Logged(svc, Call("update", id, NoQuery, add, remove, ok))
        parents == IF addLast THEN (f[id].parents \ removes) \cup adds
                   ELSE (f[id].parents \cup adds) \ removes
    IN IF ~ok THEN [ret |-> Raised(HttpError(id)), svc |-> svc2]
       ELSE [ret |-> Returned(id),
             svc |-> [svc2 EXCEPT !.files[id].parents = parents]]

\* move_file removing the first listed parent only
move_file_FirstParentOnly(svc, file_id, folder_id, addLast) ==
    LET file == GetRequest(svc, file_id)
        listed == ProviderOrder(svc, file.file.parents)
        previous_parents == IF listed = <<>> THEN <<>> ELSE IdStr(listed[1])
    IN IF ~file.ret.ok THEN [ret |-> file.ret, svc |-> file.svc]
       ELSE UpdateRequest(file.svc, file_id, IdStr(folder_id), previous_parents, addLast)

move_file(svc, file_id, folder_id, addLast) ==
    LET file == GetRequest(svc, file_id)
        listed == ProviderOrder(svc, file.file.parents)
        previous_parents == Join(Comma, [k \in 1..Len(listed) |-> IdStr(listed[k])])
    IN IF ~file.ret.ok THEN [ret |-> file.ret, svc |-> file.svc]
       ELSE UpdateRequest(file.svc, file_id, IdStr(folder_id), previous_parents, addLast)

(* ---------------------------- move_drive_file -------------------------- *)

\* f"Successfully moved '{file_path}' to '{destination_folder_path}'"
SuccessMessage == [message |-> "Successfully moved", error |-> NoError]

\* f"Error moving file: {str(e)}"
ErrorMessage(e) == [message |-> "Error moving file", error |-> e]

\* the tool reading the parents of the file before it resolves the destination
move_drive_file_GetBeforeDestination(svc, file_path, destination_folder_path, addLast) ==
    LET source == find_id_by_path(svc, file_path)
        file == GetRequest(source.svc, source.ret.value)
        folder == find_id_by_path(file.svc, destination_folder_path)
        moved == UpdateRequest(folder.svc, source.ret.value, IdStr(folder.ret.value),
                               Join(Comma, [k \in 1..Len(ProviderOrder(svc, file.file.parents)) |->
                                               IdStr(ProviderOrder(svc, file.file.parents)[k])]),
                               addLast)
    IN IF ~source.ret.ok
       THEN [ret |-> Returned(ErrorMessage(source.ret.err)), svc |-> source.svc]
       ELSE IF ~file.ret.ok
       THEN [ret |-> Returned(ErrorMessage(file.ret.err)), svc |-> file.svc]
       ELSE IF ~folder.ret.ok
       THEN [ret |-> Returned(ErrorMessage(folder.ret.err)), svc |-> folder.svc]
       ELSE IF ~moved.ret.ok
       THEN [ret |-> Returned(ErrorMessage(moved.ret.err)), svc |-> moved.svc]
       ELSE [ret |-> Returned(SuccessMessage), svc |-> moved.svc]

\* the tool move_drive_file(file_path, destination_folder_path): the except
\* clause turns every exception into the returned message
move_drive_file(svc, file_path, destination_folder_path, addLast) ==
    LET source == find_id_by_path(svc, file_path)
        folder == find_id_by_path(source.svc, destination_folder_path)
        moved == move_file(folder.svc, source.ret.value, folder.ret.value, addLast)
    IN IF ~source.ret.ok
       THEN [ret |-> Returned(ErrorMessage(source.ret.err)), svc |-> source.svc]
       ELSE IF ~folder.ret.ok
       THEN [ret |-> Returned(ErrorMessage(folder.ret.err)), svc |-> folder.svc]
       ELSE IF ~moved.ret.ok
       THEN [ret |-> Returned(ErrorMessage(moved.ret.err)), svc |-> moved.svc]
       ELSE [ret |-> Returned(SuccessMessage), svc |-> moved.svc]

(* ------------------------------ list_files ----------------------------- *)

\* page_token = None
NoToken == 0

Min(a, b) == IF a < b THEN a ELSE b

\* one term of a caller's filter expression: "mimeType = '<value>'" or
\* "trashed = <value>"
MimeIs(mime) == [field |-> "mimeType", value |-> mime]

TrashedIs(word) == [field |-> "trashed", value |-> <<word>>]

Holds(file, term) ==
    IF term.field = "mimeType" THEN file.mimeType = term.value
    ELSE file.trashed = (term.value = <<"true">>)

\* the `query` arguments of list_files: None, one term, and two terms joined
\* by "or"; a query is the sequence of its "or"-joined terms
NoFilter == <<>>

Filters == {NoFilter, <<MimeIs(FolderMime)>>, <<MimeIs(PlainMime), TrashedIs("true")>>}

\* the folder query followed by " and " and the caller's query without the
\* parentheses
CombinedQuery_Ungrouped(folder_id, query) ==
    [byName |-> FALSE, name |-> <<>>, parent |-> folder_id,
     extra |-> query, grouped |-> FALSE]

\* combined_query: f"{folder_query} and ({query})" if query else folder_query
CombinedQuery(folder_id, query) ==
    [byName |-> FALSE, name |-> <<>>, parent |-> folder_id,
     extra |-> query, grouped |-> TRUE]

\* the files a combined query selects; "and" binds tighter than "or", so
\* without the parentheses only the first term of the caller's query is
\* conjoined with the folder query
MatchesCombined(svc, q) ==
    LET inFolder == Matches(svc, ChildrenQuery(q.parent))
        n == Len(q.extra)
    IN {i \in DOMAIN svc.files :
          IF n = 0 THEN i \in inFolder
          ELSE IF q.grouped
          THEN i \in inFolder /\ \E k \in 1..n : Holds(svc.files[i], q.extra[k])
          ELSE \/ i \in inFolder /\ Holds(svc.files[i], q.extra[1])
               \/ \E k \in 2..n : Holds(svc.files[i], q.extra[k])}

\* an entry of 'files' in a response: fields id, name, mimeType, parents
FileItem(svc, i) ==
    [id |-> i, name |-> svc.files[i].name, mimeType |-> svc.files[i].mimeType,
     parents |-> svc.files[i].parents]

PageCall(q, page_size, page_token, ok) ==
    [api |-> "list", id |-> q.parent, q |-> q, add |-> <<>>, remove |-> <<>>,
     ok |-> ok, pageSize |-> page_size, pageToken |-> page_token]

PageCount(svc) ==
    Cardinality({k \in 1..Len(svc.calls) :
                    svc.calls[k].api = "list" /\ ~svc.calls[k].q.byName})

\* files().list(q=q, pageSize=page_size, pageToken=page_token).execute(): the
\* provider serves the files after the first page_token ones, at most
\* page_size of them and at most its own page size, with a nextPageToken when
\* files are left; in list_files svc.failAt = k makes the k-th of these
\* requests fail in transit
PageRequest(svc, q, page_size, page_token) ==
    LET all == ProviderOrder(svc, MatchesCombined(svc, q))
        last == Min(page_token + Min(page_size, svc.pageSize), Len(all))
        fails == svc.failAt = PageCount(svc) + 1
        svc2 == Logged(svc, PageCall(q, page_size, page_token, ~fails))
    IN IF fails
       THEN [ret |-> Raised(RemoteFailure(q.parent)), svc |-> svc2,
             files |-> <<>>, nextPageToken |-> NoToken]
       ELSE [ret |-> Returned(NoId), svc |-> svc2,
             files |-> [k \in 1..(last - page_token) |-> FileItem(svc, all[page_token + k])],
             nextPageToken |-> IF last < Len(all) THEN last ELSE NoToken]

\* the loop returning after the first response
ListPages_FirstPageOnly(svc, q, page_size, page_token, results) ==
    LET response == PageRequest(svc, q, page_size, page_token)
    IN IF ~response.ret.ok THEN [ret |-> response.ret, svc |-> response.svc]
       ELSE [ret |-> Returned(results \o response.files), svc |-> response.svc]

\* the loop leaving with the pages it has when a request fails, as "break"
\* in the except clause does
RECURSIVE ListPages_ReturnPartial(_, _, _, _, _)
ListPages_ReturnPartial(svc, q, page_size, page_token, results) ==
    LET response == PageRequest(svc, q, page_size, page_token)
    IN IF ~response.ret.ok THEN [ret |-> Returned(results), svc |-> response.svc]
       ELSE IF response.nextPageToken = NoToken
       THEN [ret |-> Returned(results \o response.files), svc |-> response.svc]
       ELSE ListPages_ReturnPartial(response.svc, q, page_size,
                                    response.nextPageToken, results \o response.files)

\* the loop "while True" of list_files; the except clauses print, log and re-raise
RECURSIVE ListPages(_, _, _, _, _)
ListPages(svc, q, page_size, page_token, results) ==
    LET response == PageRequest(svc, q, page_size, page_token)
    IN IF ~response.ret.ok THEN [ret |-> response.ret, svc |-> response.svc]
       ELSE IF response.nextPageToken = NoToken
       THEN [ret |-> Returned(results \o response.files), svc |-> response.svc]
       ELSE ListPages(response.svc, q, page_size,
                      response.nextPageToken, results \o response.files)

\* list_files(service, folder_path, page_size, query), the definition of line
\* 336, which replaces the one of line 189
list_files(svc, folder_path, page_size, query) ==
    LET found == find_id_by_path(svc, folder_path)
    IN IF ~found.ret.ok THEN found
       ELSE ListPages(found.svc, CombinedQuery(found.ret.value, query),
                      page_size, NoToken, <<>>)

(* --------------------------- get_file_content -------------------------- *)

SheetMime == <<GoogleApps, "spreadsheet">>

SlidesMime == <<GoogleApps, "presentation">>

\* a provider-native type without a branch of its own in get_file_content
FormMime == <<GoogleApps, "form">>

TextPlain == <<"text/plain">>

TextCsv == <<"text/csv">>

ApplicationPdf == <<"application/pdf">>

NoExport == <<>>

\* mime_type.startswith('application/vnd.google-apps')
IsGoogleApps(mime_type) == mime_type # <<>> /\ Head(mime_type) = GoogleApps

\* every provider-native type exported as plain text
ExportFormat_AllPlain(mime_type) ==
    IF mime_type \in {DocMime, SheetMime, SlidesMime} THEN TextPlain ELSE NoExport

\* the mimeType of the export call in the branch taken for mime_type
ExportFormat(mime_type) ==
    IF mime_type = DocMime THEN TextPlain
    ELSE IF mime_type = SheetMime THEN TextCsv
    ELSE IF mime_type = SlidesMime THEN ApplicationPdf
    ELSE NoExport

\* ValueError(f"Cannot download Google Workspace file of type: {mime_type}")
ValueError(id) == [kind |-> "ValueError", part |-> <<>>, path |-> <<>>, id |-> id]

\* files().export(fileId=id, mimeType=mimeType).execute()
ExportRequest(svc, id, mimeType) ==
    [ret |-> Returned([via |-> "export", mimeType |-> mimeType, id |-> id, chunks |-> 1]),
     svc |-> Logged(svc, [api |-> "export", id |-> id, q |-> NoQuery, add |-> <<>>,
                          remove |-> <<>>, ok |-> TRUE, mimeType |-> mimeType])]

\* "while not done: status, done = downloader.next_chunk()": one get_media
\* request for each chunk, `chunks` of them for the file's size
RECURSIVE Download(_, _, _)
Download(svc, id, chunks) ==
    IF chunks = 0 THEN svc
    ELSE Download(Logged(svc, Call("get_media", id, NoQuery, <<>>, <<>>, TRUE)),
                  id, chunks - 1)

\* a provider-native type without an export branch downloaded like a regular file
get_file_content_DownloadNative(svc, file_path, chunks) ==
    LET found == find_id_by_path(svc, file_path)
        file_id == found.ret.value
        file_metadata == GetRequest(found.svc, file_id)
        mime_type == file_metadata.file.mimeType
    IN IF ~found.ret.ok THEN found
       ELSE IF ~file_metadata.ret.ok
       THEN [ret |-> file_metadata.ret, svc |-> file_metadata.svc]
       ELSE IF ExportFormat(mime_type) # NoExport
       THEN ExportRequest(file_metadata.svc, file_id, ExportFormat(mime_type))
       ELSE [ret |-> Returned([via |-> "get_media", mimeType |-> mime_type,
                               id |-> file_id, chunks |-> chunks]),
             svc |-> Download(file_metadata.svc, file_id, chunks)]

\* the file deleted once its content is read
get_file_content_Consuming(svc, file_path, chunks) ==
    LET found == find_id_by_path(svc, file_path)
        file_id == found.ret.value
        file_metadata == GetRequest(found.svc, file_id)
        mime_type == file_metadata.file.mimeType
        read == IF ExportFormat(mime_type) # NoExport
                THEN ExportRequest(file_metadata.svc, file_id, ExportFormat(mime_type))
                ELSE [ret |-> Returned([via |-> "get_media", mimeType |-> mime_type,
                                        id |-> file_id, chunks |-> chunks]),
                      svc |-> Download(file_metadata.svc, file_id, chunks)]
    IN IF ~found.ret.ok THEN found
       ELSE IF ~file_metadata.ret.ok
       THEN [ret |-> file_metadata.ret, svc |-> file_metadata.svc]
       ELSE IF IsGoogleApps(mime_type) /\ ExportFormat(mime_type) = NoExport
       THEN [ret |-> Raised(ValueError(file_id)), svc |-> file_metadata.svc]
       ELSE [ret |-> read.ret, svc |-> DeleteRequest(read.svc, file_id).svc]

\* get_file_content(service, file_path), the definition of line 386; the
\* except clause logs and re-raises
get_file_content(svc, file_path, chunks) ==
    LET found == find_id_by_path(svc, file_path)
        file_id == found.ret.value
        file_metadata == GetRequest(found.svc, file_id)
        mime_type == file_metadata.file.mimeType
    IN IF ~found.ret.ok THEN found
       ELSE IF ~file_metadata.ret.ok
       THEN [ret |-> file_metadata.ret, svc |-> file_metadata.svc]
       ELSE IF IsGoogleApps(mime_type)
       THEN IF ExportFormat(mime_type) # NoExport
            THEN ExportRequest(file_metadata.svc, file_id, ExportFormat(mime_type))
            ELSE [ret |-> Raised(ValueError(file_id)), svc |-> file_metadata.svc]
       ELSE [ret |-> Returned([via |-> "get_media", mimeType |-> mime_type,
                               id |-> file_id, chunks |-> chunks]),
             svc |-> Download(file_metadata.svc, file_id, chunks)]

(* ------------------------------ stores --------------------------------- *)

Idle == [name |-> "idle"]

AtMostOne(S) == \A x, y \in S : x = y

\* the records node i can have in a store that holds the nodes f of smaller
\* id: every parent is 'root' or a folder of smaller id (so the parents
\* relation is acyclic), at most `maxParents` parents, at most one node of
\* the store with two parents and, in a `trashable` store, at most one
\* trashed node
NodeRecords(f, i, names, mimes, maxParents, trashable) ==
    LET folders == {Root} \cup {j \in DOMAIN f : f[j].mimeType = FolderMime}
        shared == \E j \in DOMAIN f : Cardinality(f[j].parents) > 1
        trashedAlready == \E j \in DOMAIN f : f[j].trashed
        parentSets == {P \in SUBSET folders :
                          /\ P # {}
                          /\ Cardinality(P) <= (IF shared THEN 1 ELSE maxParents)}
    IN [name : names, mimeType : mimes, parents : parentSets,
        trashed : IF trashable /\ ~trashedAlready THEN BOOLEAN ELSE {FALSE}]

RECURSIVE StoresUpTo(_, _, _, _, _)
StoresUpTo(n, names, mimes, maxParents, trashable) ==
    IF n = 0 THEN {<<>>}
    ELSE UNION {{[j \in 1..n |-> IF j = n THEN r ELSE f[j]] :
                    r \in NodeRecords(f, n, names, mimes, maxParents, trashable)} :
                f \in StoresUpTo(n - 1, names, mimes, maxParents, trashable)}

\* trees of folders with any names; a store and a path read the same with the
\* two name characters exchanged, so the node of smallest id is named "a";
\* no lookup reaches a trashed node or a node below it, so the trashed node
\* is one without children, the one of greatest id
TreeStores ==
    {f \in StoresUpTo(MaxNodes, Names, {FolderMime}, 1, TRUE) :
        /\ f[1].name = <<"a">>
        /\ \A i \in DOMAIN f : f[i].trashed => i = MaxNodes}

\* stores of folders and files in which one node may have two parents
DagStores == StoresUpTo(MaxNodes, {<<"a">>}, {FolderMime, PlainMime}, 2, TRUE)

\* stores of folders and files for move_file, which does not read `trashed`
MoveStores == StoresUpTo(MaxNodes, {<<"a">>}, {FolderMime, PlainMime}, 2, FALSE)

\* trees of folders, files and provider-native documents with any names; the
\* node of smallest id is named "a" (the names are symmetric) and the
\* document, which a delete treats as it treats a file, has the greatest id
NamedStores ==
    {f \in StoresUpTo(MaxNodes, Names, {FolderMime, PlainMime, DocMime}, 1, FALSE) :
        /\ f[1].name = <<"a">>
        /\ \A i \in DOMAIN f : f[i].mimeType = DocMime => i = MaxNodes}

\* stores of folders and files with one name, for the listing of a folder
ListStores == StoresUpTo(MaxNodes, {<<"a">>}, {FolderMime, PlainMime}, 1, TRUE)

\* the paths given to list_files: the names of these stores have one character
ListPaths == SeqsUpTo({"a", Slash}, MaxDeletePathLen)

\* trees of folders, regular files and provider-native files of every kind
\* get_file_content tells apart, with one name; an operation reads the type
\* of one node, and the provider-native one is the node of greatest id
ReadStores ==
    {f \in StoresUpTo(MaxNodes, {<<"a">>},
                      {FolderMime, PlainMime, DocMime, SheetMime, SlidesMime, FormMime},
                      1, FALSE) :
        \A i \in DOMAIN f : f[i].mimeType \notin {FolderMime, PlainMime} => i = MaxNodes}

\* the paths given to the reading operations on these stores
ReadPaths == SeqsUpTo({"a", Slash}, MaxPathLen)

\* stores of folders and files with one name and one parent each, for the
\* deletes that differ in their flag
FlagStores == StoresUpTo(MaxNodes, {<<"a">>}, {FolderMime, PlainMime}, 1, FALSE)

(* ------------------------------ actions -------------------------------- *)

Invoked(name, path, id, dest, flag, failAt) ==
    [name |-> name, path |-> path, id |-> id, dest |-> dest, flag |-> flag,
     failAt |-> failAt, run |-> 1, before |-> files]

\* a caller invokes find_id_by_path(service, path)
Resolve(path) ==
    /\ op = Idle
    /\ LET r == find_id_by_path(Service(0), path)
       IN /\ op' = Invoked("find_id_by_path", path, NoId, NoId, "", 0)
          /\ calls' = r.svc.calls
          /\ ret' = r.ret
          /\ files' = r.svc.files
    /\ UNCHANGED <<order, pageSize>>

\* the caller invokes find_id_by_path again with the same path
ResolveAgain ==
    /\ op # Idle
    /\ op.name = "find_id_by_path"
    /\ op.run = 1
    /\ LET r == find_id_by_path(Service(0), op.path)
       IN /\ op' = [op EXCEPT !.run = 2]
          /\ calls' = r.svc.calls
          /\ ret' = r.ret
          /\ files' = r.svc.files
    /\ UNCHANGED <<order, pageSize>>

\* a caller invokes delete_folder(service, folder_id, recursive)
DeleteFolder(folder_id, recursive, failAt) ==
    /\ op = Idle
    /\ LET r == delete_folder(Service(failAt), folder_id, recursive)
       IN /\ op' = Invoked("delete_folder", <<>>, folder_id, NoId,
                           IF recursive THEN "True" ELSE "False", failAt)
          /\ calls' = r.svc.calls
          /\ ret' = r.ret
          /\ files' = r.svc.files
    /\ UNCHANGED <<order, pageSize>>

\* a caller invokes delete_file(service, file_id)
DeleteFile(file_id, failAt) ==
    /\ op = Idle
    /\ LET r == delete_file(Service(failAt), file_id)
       IN /\ op' = Invoked("delete_file", <<>>, file_id, NoId, "", failAt)
          /\ calls' = r.svc.calls
          /\ ret' = r.ret
          /\ files' = r.svc.files
    /\ UNCHANGED <<order, pageSize>>

\* a caller invokes delete_by_path(service, path, is_folder)
DeleteByPath(path, is_folder, failAt) ==
    /\ op = Idle
    /\ LET r == delete_by_path(Service(failAt), path, is_folder)
       IN /\ op' = Invoked("delete_by_path", path, NoId, NoId, is_folder, failAt)
          /\ calls' = r.svc.calls
          /\ ret' = r.ret
          /\ files' = r.svc.files
    /\ UNCHANGED <<order, pageSize>>

\* a caller invokes move_file(service, file_id, folder_id)
MoveFile(file_id, folder_id, addLast) ==
    /\ op = Idle
    /\ LET r == move_file(Service(0), file_id, folder_id, addLast)
       IN /\ op' = Invoked("move_file", <<>>, file_id, folder_id,
                           IF addLast THEN "addLast" ELSE "removeLast", 0)
          /\ calls' = r.svc.calls
          /\ ret' = r.ret
          /\ files' = r.svc.files
    /\ UNCHANGED <<order, pageSize>>

\* the caller takes the result; the next operation can start
Return ==
    /\ op # Idle
    /\ op' = Idle
    /\ calls' = <<>>
    /\ ret' = Returned(NoId)
    /\ UNCHANGED <<files, order, pageSize>>

InitResolve ==
    /\ files \in TreeStores
    /\ order \in {"asc", "desc"}
    /\ pageSize = MaxPageSize
    /\ op = Idle
    /\ calls = <<>>
    /\ ret = Returned(NoId)

\* find_id_by_path leaves the store as it is: the caller taking the result
\* leads back to the state the operation started in
NextResolve ==
    \/ \E path \in Paths : Resolve(path)
    \/ ResolveAgain

SpecResolve == InitResolve /\ [][NextResolve]_vars

InitDelete ==
    /\ files \in DagStores
    /\ order \in {"asc", "desc"}
    /\ pageSize \in 1..MaxPageSize
    /\ op = Idle
    /\ calls = <<>>
    /\ ret = Returned(NoId)

NextDelete ==
    \/ \E id \in {Root} \cup NodeIds, recursive \in BOOLEAN, failAt \in 0..(MaxNodes + 1) :
          DeleteFolder(id, recursive, failAt)
    \/ \E id \in {Root} \cup NodeIds, failAt \in 0..1 : DeleteFile(id, failAt)
    \/ Return

SpecDelete == InitDelete /\ [][NextDelete]_vars

InitDeletePath ==
    /\ files \in NamedStores
    /\ order \in {"asc", "desc"}
    /\ pageSize = MaxPageSize
    /\ op = Idle
    /\ calls = <<>>
    /\ ret = Returned(NoId)

\* one delete on any store; the stores a delete leaves are stores of fewer nodes
NextDeletePath ==
    \/ \E path \in DeletePaths, is_folder \in {"None", "True", "False"}, failAt \in 0..1 :
          DeleteByPath(path, is_folder, failAt)
    \/ \E id \in {Root} \cup NodeIds, failAt \in 0..1 : DeleteFile(id, failAt)

SpecDeletePath == InitDeletePath /\ [][NextDeletePath]_vars

InitMove ==
    /\ files \in MoveStores
    /\ order \in {"asc", "desc"}
    /\ pageSize = MaxPageSize
    /\ op = Idle
    /\ calls = <<>>
    /\ ret = Returned(NoId)

NextMove ==
    \/ \E file_id \in {Root} \cup NodeIds, folder_id \in {Root} \cup NodeIds,
          addLast \in BOOLEAN : MoveFile(file_id, folder_id, addLast)
    \/ Return

SpecMove == InitMove /\ [][NextMove]_vars

\* a caller invokes list_files(service, folder_path, page_size, query)
ListFiles(folder_path, page_size, query, failAt) ==
    /\ op = Idle
    /\ LET r == list_files(Service(failAt), folder_path, page_size, query)
       IN /\ op' = [name |-> "list_files", path |-> folder_path, id |-> NoId,
                    dest |-> NoId, flag |-> "", failAt |-> failAt, run |-> 1,
                    before |-> files, page_size |-> page_size, query |-> query]
          /\ calls' = r.svc.calls
          /\ ret' = r.ret
          /\ files' = r.svc.files
    /\ UNCHANGED <<order, pageSize>>

InitList ==
    /\ files \in ListStores
    /\ order \in {"asc", "desc"}
    /\ pageSize = MaxPageSize
    /\ op = Idle
    /\ calls = <<>>
    /\ ret = Returned(NoId)

\* the first or the second page request fails, or none
NextList ==
    \/ \E folder_path \in ListPaths, page_size \in 1..MaxPageSize,
          query \in Filters, failAt \in 0..2 :
          ListFiles(folder_path, page_size, query, failAt)
    \/ Return

SpecList == InitList /\ [][NextList]_vars

\* a caller invokes get_file_content(service, file_path)
GetFileContent(file_path, chunks) ==
    /\ op = Idle
    /\ LET r == get_file_content(Service(0), file_path, chunks)
       IN /\ op' = Invoked("get_file_content", file_path, NoId, NoId, "", 0)
          /\ calls' = r.svc.calls
          /\ ret' = r.ret
          /\ files' = r.svc.files
    /\ UNCHANGED <<order, pageSize>>

InitRead ==
    /\ files \in ReadStores
    /\ order \in {"asc", "desc"}
    /\ pageSize = MaxPageSize
    /\ op = Idle
    /\ calls = <<>>
    /\ ret = Returned(NoId)

\* the operations that read the store
NextRead ==
    \/ \E path \in ReadPaths : Resolve(path)
    \/ \E folder_path \in ListPaths, page_size \in 1..MaxPageSize,
          query \in Filters, failAt \in 0..2 :
          ListFiles(folder_path, page_size, query, failAt)
    \/ \E file_path \in ReadPaths, chunks \in 1..MaxChunks :
          GetFileContent(file_path, chunks)
    \/ Return

SpecRead == InitRead /\ [][NextRead]_vars

InitDeleteFlags ==
    /\ files \in FlagStores
    /\ order \in {"asc", "desc"}
    /\ pageSize \in 1..MaxPageSize
    /\ op = Idle
    /\ calls = <<>>
    /\ ret = Returned(NoId)

\* the deletes of a folder by its id and by its path, with every value of
\* their flags
NextDeleteFlags ==
    \/ \E id \in {Root} \cup NodeIds, recursive \in BOOLEAN :
          DeleteFolder(id, recursive, 0)
    \/ \E path \in ListPaths, is_folder \in {"None", "True", "False"} :
          DeleteByPath(path, is_folder, 0)
    \/ Return

SpecDeleteFlags == InitDeleteFlags /\ [][NextDeleteFlags]_vars

\* the destination paths given to move_drive_file: find_id_by_path strips the
\* leading slashes of both paths alike, and the source paths have them
DestinationPaths == {path \in ListPaths : path = <<>> \/ Head(path) # Slash}

\* the agent invokes the tool move_drive_file(file_path, destination_folder_path)
MoveDriveFile(file_path, destination_folder_path, addLast) ==
    /\ op = Idle
    /\ LET r == move_drive_file(Service(0), file_path, destination_folder_path, addLast)
       IN /\ op' = [name |-> "move_drive_file", path |-> file_path, id |-> NoId,
                    dest |-> NoId, flag |-> IF addLast THEN "addLast" ELSE "removeLast",
                    failAt |-> 0, run |-> 1, before |-> files,
                    destination |-> destination_folder_path]
          /\ calls' = r.svc.calls
          /\ ret' = r.ret
          /\ files' = r.svc.files
    /\ UNCHANGED <<order, pageSize>>

InitMovePath ==
    /\ files \in FlagStores
    /\ order \in {"asc", "desc"}
    /\ pageSize = MaxPageSize
    /\ op = Idle
    /\ calls = <<>>
    /\ ret = Returned(NoId)

NextMovePath ==
    \/ \E file_path \in ListPaths, destination_folder_path \in DestinationPaths,
          addLast \in BOOLEAN :
          MoveDriveFile(file_path, destination_folder_path, addLast)
    \/ Return

SpecMovePath == InitMovePath /\ [][NextMovePath]_vars

(* ===================== path resolution: C1 .. C5 ======================= *)

IsResolve == op.name = "find_id_by_path"

RECURSIVE DropLeadingEmpty(_)
DropLeadingEmpty(pieces) ==
    IF pieces # <<>> /\ Head(pieces) = <<>> THEN DropLeadingEmpty(Tail(pieces))
    ELSE pieces

\* the segments of a path as the data model describes them: the pieces between
\* slashes, without the empty leading and trailing ones
Segments(path) ==
    Reverse(DropLeadingEmpty(Reverse(DropLeadingEmpty(Split(path, Slash)))))

\* the non-trashed children of `parent` with the name `name`
Named(f, parent, name) ==
    {i \in DOMAIN f : ~f[i].trashed /\ parent \in f[i].parents /\ f[i].name = name}

\* the one of them the provider returns first
FirstNamed(f, parent, name) ==
    IF order = "asc" THEN CHOOSE i \in Named(f, parent, name) :
                              \A j \in Named(f, parent, name) : i <= j
    ELSE CHOOSE i \in Named(f, parent, name) : \A j \in Named(f, parent, name) : i >= j

\* the walk from `parent` along segs[k..], taking the first child returned
\* for each segment: how many segments matched and the node reached
RECURSIVE Walk(_, _, _, _)
Walk(f, segs, k, parent) ==
    IF k > Len(segs) \/ Named(f, parent, segs[k]) = {}
    THEN [matched |-> k - 1, node |-> parent]
    ELSE Walk(f, segs, k + 1, FirstNamed(f, parent, segs[k]))

\* the nodes some chain of non-trashed nodes named segs[1..k] leads to
RECURSIVE Reached(_, _, _)
Reached(f, segs, k) ==
    IF k = 0 THEN {Root}
    ELSE UNION {Named(f, p, segs[k]) : p \in Reached(f, segs, k - 1)}

Lookups == {k \in 1..Len(calls) : calls[k].api = "list" /\ calls[k].q.byName}

\* C1 as stated: for every non-empty path whose segments exist in the tree,
\* every resolve issues exactly one lookup per segment and returns the first
\* child returned for the final segment.
C1_ResolveExistingPath ==
    LET segs == Segments(op.path)
    IN (IsResolve /\ segs # <<>> /\ Reached(op.before, segs, Len(segs)) # {}) =>
          /\ ret.ok
          /\ Len(calls) = Len(segs)
          /\ Lookups = 1..Len(segs)

\* C1 amended: for every non-empty path each of whose segments has a
\* non-trashed child of that name under the node selected for the segment
\* before it (the first child the lookup returned; the root for the first
\* segment), every resolve, a repeated one included, issues exactly one lookup
\* per segment and returns the first child returned for the final segment.
C1_ResolveFirstMatchPath ==
    LET segs == Segments(op.path)
        walk == Walk(op.before, segs, 1, Root)
    IN (IsResolve /\ segs # <<>> /\ walk.matched = Len(segs)) =>
          /\ ret = Returned(walk.node)
          /\ Len(calls) = Len(segs)
          /\ Lookups = 1..Len(segs)
          /\ ret.value = FirstNamed(op.before, calls[Len(calls)].q.parent,
                                    segs[Len(segs)])
          /\ files = op.before

\* a repeated resolve of a two-segment path whose first segment names two siblings
C1_Witness ==
    /\ IsResolve
    /\ op.run = 2
    /\ ret.ok
    /\ Len(calls) = 2
    /\ Cardinality(Named(op.before, Root, Segments(op.path)[1])) = 2

\* C2: a path that is empty after stripping slashes resolves to the root
\* identifier without any remote call.
C2_EmptyPathIsRoot ==
    (IsResolve /\ \A k \in 1..Len(op.path) : op.path[k] = Slash) =>
        /\ ret = Returned(Root)
        /\ calls = <<>>
        /\ files = op.before

C2_Witness ==
    /\ IsResolve
    /\ op.path = <<Slash, Slash, Slash>>
    /\ ret.value = Root
    /\ \E i \in DOMAIN files : Root \in files[i].parents

\* the first segment without a match on the walk of the first children
FirstMissing(f, segs) == Walk(f, segs, 1, Root).matched + 1

\* C3 as stated: when segment k is the first one with no matching child,
\* resolve fails with NotFound naming that segment and the full original path,
\* and issues no lookup for a later segment.
C3_NotFoundOriginalPath ==
    LET segs == Segments(op.path)
        k == FirstMissing(op.before, segs)
    IN (IsResolve /\ k <= Len(segs)) =>
          /\ ~ret.ok
          /\ ret.err.kind = "FileNotFoundError"
          /\ ret.err.part = segs[k]
          /\ ret.err.path = op.path
          /\ Len(calls) = k

\* C3 amended: when segment k is the first one with no matching child, resolve
\* fails with NotFound naming that segment and the whole path with its leading
\* and trailing slashes stripped, issues no lookup for a later segment, and
\* does so whether or not nodes with the later segments' names exist.
C3_NotFoundStrippedPath ==
    LET segs == Segments(op.path)
        k == FirstMissing(op.before, segs)
    IN (IsResolve /\ k <= Len(segs)) =>
          /\ ~ret.ok
          /\ ret.err.kind = "FileNotFoundError"
          /\ ret.err.part = segs[k]
          /\ ret.err.path = Join(Slash, segs)
          /\ Len(calls) = k
          /\ Lookups = 1..k
          /\ calls[k].q.name = segs[k]
          /\ files = op.before

\* "/b/a" where the root has no child b and a node named a exists
C3_Witness ==
    /\ IsResolve
    /\ Len(op.path) = 4
    /\ op.path[1] = Slash
    /\ Len(Segments(op.path)) = 2
    /\ ~ret.ok
    /\ Len(calls) = 1
    /\ \E i \in DOMAIN files : ~files[i].trashed /\ files[i].name = Segments(op.path)[2]

\* the path with its empty segments left out
Collapsed(path) ==
    LET segs == Segments(path)
        kept == {k \in 1..Len(segs) : segs[k] # <<>>}
        ks == SortAsc(kept)
    IN Join(Slash, [j \in 1..Len(ks) |-> segs[ks[j]]])

HasEmptySegment(path) == \E k \in 1..Len(Segments(path)) : Segments(path)[k] = <<>>

ResolvedOn(f, path) ==
    find_id_by_path([files |-> f, order |-> order, pageSize |-> pageSize,
                     failAt |-> 0, calls |-> <<>>], path)

\* C4 as stated: a path with empty segments inside resolves with the same
\* lookups and the same result as the path without them.
C4_EmptySegmentsCollapsed ==
    (IsResolve /\ HasEmptySegment(op.path)) =>
        LET r == ResolvedOn(op.before, Collapsed(op.path))
        IN /\ calls = r.svc.calls
           /\ ret.ok = r.ret.ok
           /\ ret.value = r.ret.value

\* C4 amended: resolve ignores leading and trailing slashes only; an empty
\* segment inside the path is looked up like a name: when segment k is the
\* first empty one and the segments before it are found, the k-th lookup asks
\* for the empty name under the node found for segment k-1 and, unless that
\* node has a non-trashed child with an empty name, resolve fails with
\* NotFound naming the empty segment and looks up no later segment.
C4_EmptySegmentLookedUp ==
    LET segs == Segments(op.path)
        empties == {k \in 1..Len(segs) : segs[k] = <<>>}
        k == CHOOSE e \in empties : \A e2 \in empties : e <= e2
        walk == Walk(op.before, SubSeq(segs, 1, k - 1), 1, Root)
    IN (IsResolve /\ empties # {} /\ walk.matched = k - 1) =>
          /\ Len(calls) >= k
          /\ calls[k].q = NameQuery(<<>>, walk.node)
          /\ Named(op.before, walk.node, <<>>) = {} =>
                /\ Len(calls) = k
                /\ ~ret.ok
                /\ ret.err.kind = "FileNotFoundError"
                /\ ret.err.part = <<>>

\* "a//b" fails after two lookups although "a/b" resolves
C4_Witness ==
    /\ IsResolve
    /\ op.path = <<"a", Slash, Slash, "b">>
    /\ Len(calls) = 2
    /\ ~ret.ok
    /\ ResolvedOn(op.before, <<"a", Slash, "b">>).ret.ok

\* C5: when more than one non-trashed sibling under the current parent has the
\* name of the segment being resolved, resolve fails rather than returning one
\* of them.
C5_AmbiguousNameFails ==
    (IsResolve /\ \E k \in Lookups :
                     Cardinality(Named(op.before, calls[k].q.parent, calls[k].q.name)) > 1)
        => ~ret.ok

(* ========================= deletion: C6 .. C9 ========================== *)

IsDeleteFolder == op.name = "delete_folder"

Deletes == {k \in 1..Len(calls) : calls[k].api = "delete"}

ChildListings == {k \in 1..Len(calls) : calls[k].api = "list" /\ ~calls[k].q.byName}

\* the non-trashed direct children of a node
Children(f, id) == {i \in DOMAIN f : ~f[i].trashed /\ id \in f[i].parents}

IsFolderIn(f, id) == id = Root \/ (id \in DOMAIN f /\ f[id].mimeType = FolderMime)

RECURSIVE ExpectedDeletes(_, _)
RECURSIVE SumExpected(_, _)

SumExpected(f, S) ==
    IF S = {} THEN 0
    ELSE LET x == CHOOSE y \in S : TRUE
         IN ExpectedDeletes(f, x) + SumExpected(f, S \ {x})

\* N + (the delete calls of the recursive delete of each subfolder) + 1
ExpectedDeletes(f, id) ==
    Cardinality({c \in Children(f, id) : ~IsFolderIn(f, c)})
        + SumExpected(f, {c \in Children(f, id) : IsFolderIn(f, c)}) + 1

\* every child of a folder that is deleted is deleted before it
ChildrenBeforeParent(f) ==
    \A k \in Deletes :
        IsFolderIn(f, calls[k].id) =>
            \A c \in Children(f, calls[k].id) :
                \E j \in Deletes : j < k /\ calls[j].id = c

\* C6: a recursive delete of a folder with N direct files and M direct
\* subfolders issues exactly N + (the delete calls of the recursive delete of
\* each subfolder) + 1 delete calls, and deletes every folder of the subtree
\* after all of its children.
C6_RecursiveDeleteCalls ==
    (IsDeleteFolder /\ op.flag = "True" /\ op.failAt = 0 /\ IsFolderIn(op.before, op.id)) =>
        /\ Cardinality(Deletes) = ExpectedDeletes(op.before, op.id)
        /\ ChildrenBeforeParent(op.before)

\* the folders of which delete_folder lists the children
Listed == {calls[k].q.parent : k \in ChildListings}

\* C6, where it holds: the recursive delete of a folder issues these delete
\* calls, children before parent, when no folder it lists has more children
\* than one page of the provider holds and no node it reaches has two parents.
C6_Lemma_OnePageTree ==
    (/\ IsDeleteFolder /\ op.flag = "True" /\ op.failAt = 0
     /\ IsFolderIn(op.before, op.id)
     /\ \A i \in DOMAIN op.before : Cardinality(op.before[i].parents) <= 1
     /\ \A p \in Listed : Cardinality(Children(op.before, p)) <= pageSize) =>
        /\ Cardinality(Deletes) = ExpectedDeletes(op.before, op.id)
        /\ ChildrenBeforeParent(op.before)

\* C7: a non-recursive delete of a folder that has a child fails (NotEmpty),
\* issues no delete call and leaves the folder and its children in the store.
C7_NonRecursiveNotEmpty ==
    (/\ IsDeleteFolder /\ op.flag = "False"
     /\ op.id \in DOMAIN op.before
     /\ op.before[op.id].mimeType = FolderMime
     /\ Children(op.before, op.id) # {}) =>
        /\ ~ret.ok
        /\ Deletes = {}
        /\ files = op.before

FailedDeletes == {k \in Deletes : ~calls[k].ok}

\* C8: when the delete of a child fails during a recursive folder delete, no
\* request follows it (none for the remaining siblings, none for the enclosing
\* folder or an ancestor), its error is the one surfaced, and the children
\* deleted before it stay deleted.
C8_FirstFailureAborts ==
    (IsDeleteFolder /\ op.flag = "True" /\ FailedDeletes # {}) =>
        /\ FailedDeletes = {Len(calls)}
        /\ ~ret.ok
        /\ ret.err.id = calls[Len(calls)].id
        /\ ret.err.kind = (IF op.failAt = Cardinality(Deletes) THEN "RemoteFailure"
                           ELSE "HttpError")
        /\ \A k \in Deletes \ FailedDeletes : calls[k].id \notin DOMAIN files
        /\ op.id \in DOMAIN op.before => op.id \in DOMAIN files

\* a child is deleted, the delete of the next one fails, and a sibling of the
\* failing one is left alone
C8_Witness ==
    /\ IsDeleteFolder
    /\ op.flag = "True"
    /\ FailedDeletes # {}
    /\ Deletes \ FailedDeletes # {}
    /\ \E s \in DOMAIN files, p \in Listed :
          /\ s # calls[Len(calls)].id
          /\ {s, calls[Len(calls)].id} \subseteq Children(op.before, p)
          /\ \A k \in Deletes : calls[k].id # s

\* the node a delete operation is aimed at
Target ==
    IF op.name = "delete_by_path"
    THEN LET segs == Segments(op.path)
             walk == Walk(op.before, segs, 1, Root)
         IN IF walk.matched = Len(segs) THEN walk.node ELSE NoId
    ELSE op.id

TargetIsFile ==
    /\ op.name \in {"delete_file", "delete_by_path"}
    /\ Target \in DOMAIN op.before
    /\ op.before[Target].mimeType # FolderMime

\* C9 as stated: deleting a FILE or VIRTUAL_DOCUMENT node issues exactly one
\* delete call, for that node, and no child listing, whatever the flag.
C9_FileDeleteSingleCall ==
    TargetIsFile =>
        /\ Cardinality(Deletes) = 1
        /\ \A k \in Deletes : calls[k].id = Target
        /\ ChildListings = {}

\* C9 amended: deleting a FILE or VIRTUAL_DOCUMENT node through delete_file,
\* or through delete_by_path with is_folder None or False, issues exactly one
\* delete call, for that node, and no child listing; delete_by_path with
\* is_folder True hands the node to delete_folder, which issues one child
\* listing for the node and then the one delete call.
C9_FileDeleteByKind ==
    TargetIsFile =>
        /\ Cardinality(Deletes) = 1
        /\ \A k \in Deletes : calls[k].id = Target /\ k = Len(calls)
        /\ IF op.name = "delete_by_path" /\ op.flag = "True"
           THEN /\ Cardinality(ChildListings) = 1
                /\ \A k \in ChildListings : calls[k].q.parent = Target
           ELSE ChildListings = {}
        /\ (op.failAt = 0) => (ret.ok /\ Target \notin DOMAIN files)

\* a provider-native document is found by its path, its kind is read and it is deleted
C9_Witness ==
    /\ TargetIsFile
    /\ op.name = "delete_by_path"
    /\ op.flag = "None"
    /\ op.before[Target].mimeType = DocMime
    /\ ret.ok
    /\ Len(calls) = 3
    /\ calls[1].q.byName
    /\ calls[2].api = "get"
    /\ calls[3].api = "delete"

(* ============================== move: C10 ============================== *)

IsMove == op.name = "move_file"

Updates == {k \in 1..Len(calls) : calls[k].api = "update"}

\* C10: move reads the node's parents and then issues exactly one update that
\* adds the destination and removes every parent the node had; a node with the
\* single parent A, moved to a folder other than A, ends with the parents
\* {destination}.
C10_MoveSingleUpdate ==
    (IsMove /\ op.id \in DOMAIN op.before) =>
        LET old == op.before[op.id].parents
        IN /\ Len(calls) = 2
           /\ calls[1].api = "get" /\ calls[1].id = op.id
           /\ calls[2].api = "update" /\ calls[2].id = op.id
           /\ calls[2].add = IdStr(op.dest)
           /\ IdsOf(calls[2].remove) = old
           /\ Len(calls[2].remove) = 2 * Cardinality(old) - (IF old = {} THEN 0 ELSE 1)
           /\ (ret.ok /\ Cardinality(old) = 1 /\ op.dest \notin old) =>
                 /\ files[op.id].parents = {op.dest}
                 /\ \A i \in DOMAIN files \ {op.id} : files[i] = op.before[i]
                 /\ DOMAIN files = DOMAIN op.before
           /\ (/\ Cardinality(old) = 1 /\ op.dest \notin old
               /\ IsFolderIn(op.before, op.dest)
               /\ op.id \notin AncestorsOf(op.before, {op.dest}, MaxNodes)) => ret.ok

\* a node with one parent is moved to another folder
C10_Witness ==
    /\ IsMove
    /\ op.id \in DOMAIN op.before
    /\ Cardinality(op.before[op.id].parents) = 1
    /\ op.dest \notin op.before[op.id].parents
    /\ op.dest # Root
    /\ ret.ok
    /\ files[op.id].parents = {op.dest}

(* ============================== move: C11 ============================== *)

\* C11: a move that returns without error leaves the node with at least one
\* parent, whatever the destination, a destination that is already a parent
\* of the node (the same id added and removed in the one update) included.
C11_MoveKeepsParent ==
    (IsMove /\ ret.ok) =>
        /\ op.id \in DOMAIN files
        /\ files[op.id].parents # {}

\* C11, where it holds: a move to a folder that is not a parent of the node
\* leaves the node with the destination as its parent.
C11_Lemma_OtherDestination ==
    (IsMove /\ ret.ok /\ op.dest \notin op.before[op.id].parents) =>
        files[op.id].parents = {op.dest}

(* ========================== listing: C12 .. C14 ======================== *)

IsList == op.name = "list_files"

\* the folder a list_files call lists: the node its path resolves to
ListFolder ==
    LET segs == Segments(op.path)
        walk == Walk(op.before, segs, 1, Root)
    IN IF walk.matched = Len(segs) THEN walk.node ELSE NoId

PageRequests == ChildListings

\* the k-th page request of the run
RECURSIVE NthOf(_, _)
NthOf(S, n) ==
    LET m == CHOOSE x \in S : \A y \in S : x <= y
    IN IF n = 1 THEN m ELSE NthOf(S \ {m}, n - 1)

SatisfiesFilter(file, query) ==
    query = <<>> \/ \E k \in 1..Len(query) : Holds(file, query[k])

\* the children the provider has to serve, in the order it serves them
ServedChildren ==
    LET S == {i \in Children(op.before, ListFolder) :
                 SatisfiesFilter(op.before[i], op.query)}
        asc == SortAsc(S)
    IN IF order = "asc" THEN asc ELSE Reverse(asc)

\* the size of the pages the provider serves
ServedPage == Min(op.page_size, pageSize)

\* the number of pages the provider serves them in
ServedPages ==
    IF ServedChildren = <<>> THEN 1
    ELSE (Len(ServedChildren) + ServedPage - 1) \div ServedPage

\* C12: when the provider serves the children in k pages and no request
\* fails, list_files issues exactly k page requests, the first without a
\* token and each follow-up with the token of the response before it, and
\* returns the concatenation of the pages in provider order.
C12_ListFollowsPages ==
    (IsList /\ ListFolder # NoId /\ \A k \in 1..Len(calls) : calls[k].ok) =>
        /\ Cardinality(PageRequests) = ServedPages
        /\ \A n \in 1..ServedPages :
              LET c == calls[NthOf(PageRequests, n)]
              IN /\ c.pageToken = (IF n = 1 THEN NoToken ELSE (n - 1) * ServedPage)
                 /\ c.pageSize = op.page_size
                 /\ c.q.parent = ListFolder
        /\ ret.ok
        /\ Len(ret.value) = Len(ServedChildren)
        /\ \A k \in 1..Len(ret.value) : ret.value[k].id = ServedChildren[k]

\* three children served in three pages
C12_Witness ==
    /\ IsList
    /\ ret.ok
    /\ Cardinality(PageRequests) = 3
    /\ Len(ret.value) = 3
    /\ calls[Len(calls)].pageToken = 2

\* C13: when a page request of list_files fails, the first or a later one,
\* the call fails with the remote error, issues no further request and
\* returns no list of the pages fetched before.
C13_PageFailureAborts ==
    (IsList /\ \E k \in PageRequests : ~calls[k].ok) =>
        /\ ~calls[Len(calls)].ok
        /\ \A k \in 1..(Len(calls) - 1) : calls[k].ok
        /\ ~ret.ok
        /\ ret.err.kind = "RemoteFailure"
        /\ ret.value = NoId

\* the second page request fails after a first page with a child was served
C13_Witness ==
    /\ IsList
    /\ Cardinality(PageRequests) = 2
    /\ ~calls[Len(calls)].ok
    /\ calls[Len(calls)].pageToken # NoToken
    /\ ~ret.ok
    /\ Len(ServedChildren) >= 2

\* C14: every node list_files returns for a folder is a non-trashed node with
\* that folder among its parents and, when a query is given, one the query
\* selects.
C14_ListedAreChildren ==
    (IsList /\ ret.ok) =>
        \A k \in 1..Len(ret.value) :
            LET i == ret.value[k].id
            IN /\ i \in DOMAIN op.before
               /\ ~op.before[i].trashed
               /\ ListFolder \in op.before[i].parents
               /\ SatisfiesFilter(op.before[i], op.query)
               /\ ret.value[k].parents = op.before[i].parents
               /\ ret.value[k].mimeType = op.before[i].mimeType

\* a query of two terms lists a child while a node the second term selects
\* lies outside the folder or in the trash
C14_Witness ==
    /\ IsList
    /\ ret.ok
    /\ Len(op.query) = 2
    /\ Len(ret.value) >= 1
    /\ \E i \in DOMAIN op.before :
          /\ Holds(op.before[i], op.query[2])
          /\ \A k \in 1..Len(ret.value) : ret.value[k].id # i

(* ======================= content: C15 and C16 ========================== *)

IsRead == op.name = "get_file_content"

\* the node a get_file_content call reads: the node its path resolves to
ReadNode ==
    LET segs == Segments(op.path)
        walk == Walk(op.before, segs, 1, Root)
    IN IF walk.matched = Len(segs) THEN walk.node ELSE NoId

ReadMime == IF ReadNode = Root THEN FolderMime ELSE op.before[ReadNode].mimeType

Exports == {k \in 1..Len(calls) : calls[k].api = "export"}

Downloads == {k \in 1..Len(calls) : calls[k].api = "get_media"}

Gets == {k \in 1..Len(calls) : calls[k].api = "get"}

\* C15: get_file_content reads the node's metadata before any content call;
\* for a document, spreadsheet or presentation it issues exactly one export
\* call, as plain text, CSV and PDF respectively, and no download call; for a
\* regular file it issues download calls and no export call.
C15_ExportOrDownload ==
    (IsRead /\ ReadNode # NoId) =>
        /\ Cardinality(Gets) = 1
        /\ \A g \in Gets : calls[g].id = ReadNode
                           /\ \A k \in Exports \cup Downloads : g < k
        /\ ReadMime \in {DocMime, SheetMime, SlidesMime} =>
              /\ Cardinality(Exports) = 1
              /\ Downloads = {}
              /\ \A k \in Exports :
                    /\ calls[k].id = ReadNode
                    /\ calls[k].mimeType =
                          (IF ReadMime = DocMime THEN <<"text/plain">>
                           ELSE IF ReadMime = SheetMime THEN <<"text/csv">>
                           ELSE <<"application/pdf">>)
              /\ ret.ok /\ ret.value.via = "export"
        /\ ReadMime = PlainMime =>
              /\ Exports = {}
              /\ Downloads # {}
              /\ \A k \in Downloads : calls[k].id = ReadNode
              /\ ret.ok /\ ret.value.via = "get_media"

\* a spreadsheet below a folder is exported as CSV
C15_Witness ==
    /\ IsRead
    /\ ReadNode # NoId
    /\ ReadMime = SheetMime
    /\ Len(Segments(op.path)) = 2
    /\ ret.ok
    /\ calls[Len(calls)].api = "export"
    /\ calls[Len(calls)].mimeType = <<"text/csv">>

\* C16: get_file_content on a node of a provider-native type without an
\* export mapping, a folder included, fails with the error for an unsupported
\* type, issues neither an export nor a download call and returns nothing.
C16_UnsupportedNativeType ==
    (/\ IsRead /\ ReadNode # NoId
     /\ ReadMime[1] = GoogleApps
     /\ ReadMime \notin {DocMime, SheetMime, SlidesMime}) =>
        /\ ~ret.ok
        /\ ret.err.kind = "ValueError"
        /\ ret.value = NoId
        /\ Exports = {}
        /\ Downloads = {}

\* a form, which is found by its path and is no folder
C16_Witness ==
    /\ IsRead
    /\ ReadNode # NoId
    /\ ReadNode # Root
    /\ ReadMime = FormMime
    /\ ~ret.ok
    /\ calls[Len(calls)].api = "get"

(* ====================== resolve, step by step: C17 ===================== *)

\* the node selected for segment k of the path: the first child returned by
\* the k-th lookup
RECURSIVE SelectedFor(_, _, _)
SelectedFor(f, segs, k) ==
    IF k = 0 THEN Root
    ELSE FirstNamed(f, SelectedFor(f, segs, k - 1), segs[k])

\* C17: the lookup for the first segment asks for children of the root, the
\* lookup for segment k+1 for children of the node selected for segment k,
\* each with the segment as the exact name and without trashed nodes; a
\* successful resolve returns a non-trashed node that a chain of non-trashed
\* nodes named by the segments in order connects to the root.
C17_LookupsChained ==
    IsResolve =>
        LET segs == Segments(op.path)
        IN /\ Len(calls) <= Len(segs)
           /\ \A k \in 1..Len(calls) :
                 /\ calls[k].api = "list"
                 /\ calls[k].q = NameQuery(segs[k], SelectedFor(op.before, segs, k - 1))
                 /\ k < Len(calls) =>
                       LET s == SelectedFor(op.before, segs, k)
                       IN /\ ~op.before[s].trashed
                          /\ op.before[s].name = segs[k]
                          /\ calls[k].q.parent \in op.before[s].parents
           /\ ret.ok =>
                 /\ Len(calls) = Len(segs)
                 /\ ret.value = SelectedFor(op.before, segs, Len(segs))
                 /\ ret.value \in Reached(op.before, segs, Len(segs))
                 /\ ret.value # Root => ~op.before[ret.value].trashed

\* a two-segment path is resolved while the root has a child with the name of
\* the second segment, which is not the node returned
C17_Witness ==
    /\ IsResolve
    /\ ret.ok
    /\ Len(calls) = 2
    /\ \E i \in Named(op.before, Root, Segments(op.path)[2]) : i # ret.value
    /\ \E i \in DOMAIN op.before : op.before[i].trashed

(* ================= recursion of a delete: C18 and C19 ================== *)

\* C18: in a recursive delete, when the children of a folder are served in
\* more than one page, every child of every page is deleted before the delete
\* call for the folder is issued.
C18_DeleteFollowsPages ==
    (IsDeleteFolder /\ op.flag = "True") =>
        \A k \in Deletes :
            (/\ IsFolderIn(op.before, calls[k].id)
             /\ Cardinality(Children(op.before, calls[k].id)) > pageSize) =>
                \A c \in Children(op.before, calls[k].id) :
                    \E j \in Deletes : j < k /\ calls[j].id = c

IsDeleteOfFolder ==
    /\ op.name \in {"delete_folder", "delete_by_path"}
    /\ Target # NoId
    /\ IsFolderIn(op.before, Target)

\* C19 as stated: for a folder, the child listing and the deletes of the
\* children are performed whatever the recursive flag of delete_folder and
\* whatever the is_folder value of delete_by_path.
C19_AlwaysRecurses ==
    IsDeleteOfFolder =>
        /\ \E k \in ChildListings : calls[k].q.parent = Target
        /\ Children(op.before, Target) # {} =>
              \E k \in Deletes : calls[k].id \in Children(op.before, Target)

\* the children of the target that the provider returns in the first page
FirstPageChildren ==
    LET S == Children(op.before, Target)
        all == IF order = "asc" THEN SortAsc(S) ELSE Reverse(SortAsc(S))
    IN {all[k] : k \in 1..Min(pageSize, Len(all))}

\* C19 amended: delete_folder lists the children of the folder and deletes
\* the ones returned only when its recursive flag is true, and with
\* recursive=False issues the one delete call for the folder without a
\* listing; delete_by_path never passes the flag, so for a folder it recurses
\* when is_folder is None or True, and with is_folder=False it issues the one
\* delete call without a listing.
C19_RecursionFollowsFlag ==
    IsDeleteOfFolder =>
        IF op.flag = "False"
        THEN /\ ChildListings = {}
             /\ Cardinality(Deletes) = 1
             /\ calls[Len(calls)].api = "delete"
             /\ calls[Len(calls)].id = Target
        ELSE /\ \E k \in ChildListings :
                   /\ calls[k].q.parent = Target
                   /\ \A j \in Deletes \cup ChildListings : k <= j
             /\ \A c \in FirstPageChildren :
                   \E j \in Deletes : calls[j].id = c /\ j < Len(calls)
             /\ calls[Len(calls)].api = "delete"
             /\ calls[Len(calls)].id = Target

\* delete_folder with recursive=False on a folder that has a child: one
\* delete call and both nodes gone
C19_Witness ==
    /\ IsDeleteOfFolder
    /\ op.name = "delete_folder"
    /\ op.flag = "False"
    /\ Children(op.before, Target) # {}
    /\ Len(calls) = 1
    /\ ret.ok
    /\ \A c \in Children(op.before, Target) : c \notin DOMAIN files

(* ======================== read-only operations: C20 ==================== *)

ReadOnlyApis == {"list", "get", "export", "get_media"}

\* C20: find_id_by_path, list_files and get_file_content, whether they
\* succeed or fail, issue no create, update or delete request and leave the
\* nodes of the store, their names, types and parents as they were.
C20_ReadsLeaveStore ==
    op.name \in {"find_id_by_path", "list_files", "get_file_content"} =>
        /\ \A k \in 1..Len(calls) : calls[k].api \in ReadOnlyApis
        /\ files = op.before

\* a regular file is downloaded in two chunks
C20_Witness ==
    /\ op.name = "get_file_content"
    /\ ret.ok
    /\ Cardinality({k \in 1..Len(calls) : calls[k].api = "get_media"}) = 2
    /\ files = op.before
    /\ op.before[ret.value.id].mimeType = PlainMime

(* ================== nodes with several parents: C21 ==================== *)

DeletedOnce == \A j, k \in Deletes : calls[j].id = calls[k].id => j = k

\* C21: with no injected failure, the recursive delete of a folder (one other
\* than the root, which no delete removes) succeeds and issues at most one
\* delete call for any node id, also when a node of the subtree has several
\* parents inside the subtree.
C21_DeleteEachOnce ==
    (/\ IsDeleteFolder /\ op.flag = "True" /\ op.failAt = 0
     /\ op.id \in DOMAIN op.before
     /\ op.before[op.id].mimeType = FolderMime) =>
        /\ ret.ok
        /\ DeletedOnce

\* C21, where it holds: the recursive delete of such a folder succeeds with
\* one delete call for each node it targets when every node has one parent.
C21_Lemma_SingleParents ==
    (/\ IsDeleteFolder /\ op.flag = "True" /\ op.failAt = 0
     /\ op.id \in DOMAIN op.before
     /\ op.before[op.id].mimeType = FolderMime
     /\ \A i \in DOMAIN op.before : Cardinality(op.before[i].parents) <= 1) =>
        /\ ret.ok
        /\ DeletedOnce
        /\ op.id \notin DOMAIN files

(* ===================== delete_by_path: C22 and C23 ===================== *)

IsRootDelete ==
    /\ op.name = "delete_by_path"
    /\ Segments(op.path) = <<>>
    /\ op.flag \in {"None", "True"}
    /\ op.failAt = 0

\* C22: delete_by_path with a path that is empty after stripping slashes
\* resolves to the root and, with the type auto-detected or is_folder=True,
\* lists the root's children, deletes each of them and then issues a delete
\* call for the root itself.
C22_RootDeleted ==
    IsRootDelete =>
        /\ Lookups = {}
        /\ \E k \in ChildListings : calls[k].q.parent = Root
        /\ \A c \in Children(op.before, Root) : \E k \in Deletes : calls[k].id = c
        /\ calls[Len(calls)].api = "delete"
        /\ calls[Len(calls)].id = Root

\* C22, where it holds: when the root has no more children than one page
\* holds, each of them gets a delete call after the listing of the root and
\* the delete call for the root follows; no guard rejects the root.
C22_Lemma_RootDeleteIssued ==
    (IsRootDelete /\ Cardinality(Children(op.before, Root)) <= pageSize) =>
        /\ Lookups = {}
        /\ \E k \in ChildListings :
              /\ calls[k].q.parent = Root
              /\ \A j \in Deletes : k < j
        /\ \A c \in Children(op.before, Root) :
              \E k \in Deletes : calls[k].id = c /\ k < Len(calls)
        /\ calls[Len(calls)].api = "delete"
        /\ calls[Len(calls)].id = Root
        /\ Children(files, Root) = {}

\* C23: when the resolution of the path fails in delete_by_path, the
\* FileNotFoundError reaches the caller, no metadata get, child listing or
\* delete call is issued, and the store is unchanged.
C23_NotFoundDeletesNothing ==
    (op.name = "delete_by_path" /\ Target = NoId) =>
        /\ ~ret.ok
        /\ ret.err.kind = "FileNotFoundError"
        /\ ret.err.part = Segments(op.path)[FirstMissing(op.before, Segments(op.path))]
        /\ \A k \in 1..Len(calls) : calls[k].api = "list" /\ calls[k].q.byName
        /\ files = op.before

\* a name no child of the root has, in a root with children, with is_folder=True
C23_Witness ==
    /\ op.name = "delete_by_path"
    /\ Target = NoId
    /\ op.flag = "True"
    /\ ~ret.ok
    /\ Len(calls) = 1
    /\ Children(op.before, Root) # {}
    /\ files = op.before

(* ========================= move by path: C24 =========================== *)

IsMoveByPath == op.name = "move_drive_file"

\* the walk of the source path and, on the store as it was, of the destination path
SourceWalk == Walk(op.before, Segments(op.path), 1, Root)

DestinationWalk == Walk(op.before, Segments(op.destination), 1, Root)

SourceFound == SourceWalk.matched = Len(Segments(op.path))

DestinationFound == DestinationWalk.matched = Len(Segments(op.destination))

\* C24: move_drive_file resolves the source path and then the destination
\* path before it touches the node; when either resolution fails, no get and
\* no update call is issued, no lookup follows the failing one, the parents
\* of every node are unchanged, and the tool returns the error message, not
\* the message of a successful move.
C24_MoveResolvesFirst ==
    IsMoveByPath =>
        /\ (~SourceFound \/ ~DestinationFound) =>
              /\ \A k \in 1..Len(calls) : calls[k].api = "list" /\ calls[k].q.byName
              /\ Len(calls) = (IF ~SourceFound THEN SourceWalk.matched + 1
                               ELSE Len(Segments(op.path)) + DestinationWalk.matched + 1)
              /\ files = op.before
              /\ ret.value.message = "Error moving file"
              /\ ret.value.error.kind = "FileNotFoundError"
        /\ \A k \in 1..Len(calls) :
              calls[k].api \in {"get", "update"} =>
                  /\ k > Len(Segments(op.path)) + Len(Segments(op.destination))
                  /\ SourceFound /\ DestinationFound
        /\ ret.value.message = "Successfully moved" =>
              /\ calls[Len(calls)].api = "update"
              /\ calls[Len(calls)].ok

\* the source is found and the destination is not
C24_Witness ==
    /\ IsMoveByPath
    /\ SourceFound
    /\ Segments(op.path) # <<>>
    /\ ~DestinationFound
    /\ Len(calls) = 2
    /\ ret.value.message = "Error moving file"
    /\ files = op.before

====
